---------------------------- MODULE Spec2Model ----------------------------
(***************************************************************************)
(* Model of ExtensionManagerImpl                                           *)
(* (extraterm/src/render_process/extension/ExtensionManager.ts): the       *)
(* canonical focus-state snapshot and its merge, command execution with    *)
(* and without a temporary snapshot, and the command query.                *)
(*                                                                         *)
(* Strings are sequences of tokens (a token is a run of characters that    *)
(* the code never looks inside: a name, a delimiter, an escape sequence).  *)
(* DOM nodes are named by strings; the JavaScript null reference is NULL.  *)
(***************************************************************************)
EXTENDS Integers, Sequences, FiniteSets, TLC

VARIABLES
  started,            \* startUp() has run
  activeExtensions,   \* ExtensionManagerImpl._activeExtensions
  state,              \* ExtensionManagerImpl._commonExtensionWindowState
  before,             \* the canonical state when the most recent operation began
  call,               \* the most recent public operation and its inputs
  outcome,            \* how that operation ended and what it returned
  invoked,            \* the command handlers it invoked, in order
  warned,             \* the warnings it logged, in order
  entries,            \* the list the most recent query returned
  evaluated,          \* the expressions that query gave the expression evaluator
  handles             \* the disposables registerCommandContribution has returned

vars ==
  << started, activeExtensions, state, before, call, outcome, invoked, warned,
     entries, evaluated, handles >>

NULL == "null"

(***************************************************************************)
(* Bounds of the model.                                                    *)
(***************************************************************************)
\* How deep command handlers nest executions inside executions.
MaxDepth == 1

\* How many extensions the metadata source reports at most.
MaxExtensions == 3

\* How many contributions are registered at runtime at most.
MaxHandles == 2

(***************************************************************************)
(* The DOM the focus events come from: one tab widget with three tabs.     *)
(* Tab A holds a pane with a terminal and its terminal viewer, tab B a     *)
(* pane with an input field and a text viewer, tab C a pane with a         *)
(* terminal in cursor mode that shows its terminal viewer and an embedded  *)
(* viewer, and the embedded viewer frames a second terminal.               *)
(***************************************************************************)
Nodes ==
  { "body", "tabs", "divA", "divB", "paneA", "termA", "viewA", "paneB", "inputB",
    "textB", "divC", "paneC", "termC", "viewC", "embC", "termN", "viewN" }

parentElement(n) ==
  CASE n = "tabs"   -> "body"
    [] n = "divA"   -> "tabs"
    [] n = "divB"   -> "tabs"
    [] n = "paneA"  -> "divA"
    [] n = "termA"  -> "paneA"
    [] n = "viewA"  -> "termA"
    [] n = "paneB"  -> "divB"
    [] n = "inputB" -> "paneB"
    [] n = "textB"  -> "paneB"
    [] n = "divC"   -> "tabs"
    [] n = "paneC"  -> "divC"
    [] n = "termC"  -> "paneC"
    [] n = "viewC"  -> "termC"
    [] n = "embC"   -> "termC"
    [] n = "termN"  -> "embC"
    [] n = "viewN"  -> "termN"
    [] OTHER        -> NULL

RECURSIVE composedPath(_)
\* Event.composedPath(): the target, then its ancestors up to the root.
composedPath(target) ==
  IF target = NULL THEN <<>> ELSE <<target>> \o composedPath(parentElement(target))

\* The classes the scan tests with instanceof.
IsEtTerminal(n)       == n \in {"termA", "termC", "termN"}
IsTerminalViewer(n)   == n \in {"viewA", "viewC", "viewN"}
IsTextViewer(n)       == n \in {"textB"}
IsEmbeddedViewer(n)   == n \in {"embC"}
IsViewerElement(n)    == IsTerminalViewer(n) \/ IsTextViewer(n) \/ IsEmbeddedViewer(n)
IsTabWidget(n)        == n \in {"tabs"}
IsHTMLInputElement(n) == n \in {"inputB"}

(***************************************************************************)
(* CommonExtensionWindowState                                              *)
(***************************************************************************)
EmptyExtensionWindowState ==
  [ activeTabContent    |-> NULL,
    activeTerminal      |-> NULL,
    focusTerminal       |-> NULL,
    activeTextEditor    |-> NULL,
    focusTextEditor     |-> NULL,
    activeTabsWidget    |-> NULL,
    activeViewerElement |-> NULL,
    focusViewerElement  |-> NULL,
    isInputFieldFocus   |-> FALSE ]

\* JavaScript `a || b` on object references: a when it is not null.
OrElse(a, b) == IF a # NULL THEN a ELSE b

\* One iteration of the loop over the composed path.
ScanTarget(newState, target) ==
  LET s1 == IF IsEtTerminal(target)
              THEN [newState EXCEPT !.activeTerminal = target] ELSE newState
      s2 == IF IsTerminalViewer(target) \/ IsTextViewer(target)
              THEN [s1 EXCEPT !.activeTextEditor = target] ELSE s1
      s3 == IF /\ IsViewerElement(target)
               /\ \/ s2.activeViewerElement = NULL
                  \/ IsEmbeddedViewer(s2.activeViewerElement)
              THEN [s2 EXCEPT !.activeViewerElement = target] ELSE s2
      s4 == IF IsTabWidget(target)
              THEN [s3 EXCEPT !.activeTabsWidget = target] ELSE s3
      s5 == IF /\ parentElement(target) # NULL
               /\ IsTabWidget(parentElement(parentElement(target)))
              THEN [s4 EXCEPT !.activeTabContent = target] ELSE s4
      s6 == IF IsHTMLInputElement(target)
              THEN [s5 EXCEPT !.isInputFieldFocus = TRUE] ELSE s5
  IN s6

RECURSIVE ScanPath(_, _, _)
ScanPath(path, i, newState) ==
  IF i > Len(path) THEN newState
  ELSE ScanPath(path, i + 1, ScanTarget(newState, path[i]))

getExtensionWindowStateFromEvent(path) ==
  LET scanned == ScanPath(path, 1, EmptyExtensionWindowState)
  IN [scanned EXCEPT !.focusTerminal      = scanned.activeTerminal,
                     !.focusTextEditor    = scanned.activeTextEditor,
                     !.focusViewerElement = scanned.activeViewerElement]

\* A merge that treats every event as a tab switch.
Merge_NoRetention(st, newState) ==
  [st EXCEPT !.activeTerminal      = newState.focusTerminal,
             !.focusTerminal       = newState.focusTerminal,
             !.activeTextEditor    = newState.focusTextEditor,
             !.focusTextEditor     = newState.focusTextEditor,
             !.activeViewerElement = newState.focusViewerElement,
             !.focusViewerElement  = newState.focusViewerElement,
             !.activeTabsWidget    = newState.activeTabsWidget,
             !.activeTabContent    = newState.activeTabContent,
             !.isInputFieldFocus   = newState.isInputFieldFocus]

\* A merge that retains the active fields on a tab switch too.
Merge_AlwaysSticky(st, newState) ==
  [st EXCEPT !.activeTerminal      = OrElse(newState.focusTerminal, st.activeTerminal),
             !.activeTextEditor    = OrElse(newState.focusTextEditor, st.activeTextEditor),
             !.activeViewerElement = OrElse(newState.focusViewerElement, st.activeViewerElement),
             !.activeTabsWidget    = newState.activeTabsWidget,
             !.activeTabContent    = newState.activeTabContent,
             !.isInputFieldFocus   = newState.isInputFieldFocus]

\* A merge whose same-tab branch overwrites the active fields with what the
\* event found, null included.
Merge_SameTabOverwrites(st, newState) ==
  LET merged ==
        IF st.activeTabContent = newState.activeTabContent
        THEN [st EXCEPT
                !.activeTerminal      = newState.focusTerminal,
                !.activeTextEditor    = newState.focusTextEditor,
                !.activeViewerElement = newState.focusViewerElement]
        ELSE [st EXCEPT
                !.activeTerminal      = newState.focusTerminal,
                !.focusTerminal       = newState.focusTerminal,
                !.activeTextEditor    = newState.focusTextEditor,
                !.focusTextEditor     = newState.focusTextEditor,
                !.activeViewerElement = newState.focusViewerElement,
                !.focusViewerElement  = newState.focusViewerElement]
  IN [merged EXCEPT !.activeTabsWidget  = newState.activeTabsWidget,
                    !.activeTabContent  = newState.activeTabContent,
                    !.isInputFieldFocus = newState.isInputFieldFocus]

_mergeExtensionWindowState(st, newState) ==
  LET merged ==
        IF st.activeTabContent = newState.activeTabContent
        THEN [st EXCEPT
                !.activeTerminal      = OrElse(newState.focusTerminal, st.activeTerminal),
                !.activeTextEditor    = OrElse(newState.focusTextEditor, st.activeTextEditor),
                !.activeViewerElement = OrElse(newState.focusViewerElement, st.activeViewerElement)]
        ELSE [st EXCEPT
                !.activeTerminal      = newState.focusTerminal,
                !.focusTerminal       = newState.focusTerminal,
                !.activeTextEditor    = newState.focusTextEditor,
                !.focusTextEditor     = newState.focusTextEditor,
                !.activeViewerElement = newState.focusViewerElement,
                !.focusViewerElement  = newState.focusViewerElement]
  IN [merged EXCEPT !.activeTabsWidget  = newState.activeTabsWidget,
                    !.activeTabContent  = newState.activeTabContent,
                    !.isInputFieldFocus = newState.isInputFieldFocus]

\* updateExtensionWindowStateFromEvent(ev), as a function of the canonical state.
updateExtensionWindowStateFromEvent(st, path) ==
  _mergeExtensionWindowState(st, getExtensionWindowStateFromEvent(path))

\* An overwrite that leaves the three focus fields alone.
SetState_SkipsFocus(st, newState) ==
  [key \in DOMAIN st |->
     IF key \in {"focusTerminal", "focusTextEditor", "focusViewerElement"}
     THEN st[key] ELSE newState[key]]

\* for (const key in newState) this._commonExtensionWindowState[key] = newState[key]
_setExtensionWindowState(st, newState) ==
  [key \in DOMAIN st |-> IF key \in DOMAIN newState THEN newState[key] ELSE st[key]]

\* { ...this._commonExtensionWindowState }
copyExtensionWindowState(st) == [key \in DOMAIN st |-> st[key]]


(***************************************************************************)
(* Strings as token sequences, and the library functions the command       *)
(* parser calls on them.                                                   *)
(***************************************************************************)
RECURSIVE IndexFrom(_, _, _)
IndexFrom(s, tok, i) ==
  IF i > Len(s) THEN -1
  ELSE IF s[i] = tok THEN i - 1
  ELSE IndexFrom(s, tok, i + 1)

\* String.prototype.indexOf: zero-based position of the first tok, or -1.
indexOf(s, tok) == IndexFrom(s, tok, 1)

\* String.prototype.slice(from, to) with zero-based, end-exclusive positions.
slice(s, from, to) == SubSeq(s, from + 1, to)

RECURSIVE split(_, _)
\* String.prototype.split(sep): the pieces between the separators.
split(s, sep) ==
  LET i == indexOf(s, sep)
  IN IF i = -1 THEN <<s>>
     ELSE <<slice(s, 0, i)>> \o split(slice(s, i + 1, Len(s)), sep)

\* What one token of an encoded URI component decodes to; a lone "%" is a
\* malformed escape sequence.
DecodeToken(tok) ==
  CASE tok = "%7B" -> "{"
    [] tok = "%7D" -> "}"
    [] tok = "%22" -> "\""
    [] tok = "%3A" -> ":"
    [] tok = "%2C" -> ","
    [] OTHER       -> tok

\* decodeURIComponent: throws URIError on a malformed escape sequence.
decodeURIComponent(s) ==
  IF \E i \in 1..Len(s) : s[i] = "%"
  THEN [ok |-> FALSE, value |-> <<>>]
  ELSE [ok |-> TRUE, value |-> [i \in 1..Len(s) |-> DecodeToken(s[i])]]

(***************************************************************************)
(* JSON values: undefined, null, a number, or an object of number members. *)
(***************************************************************************)
JSUndefined == [type |-> "undefined", num |-> 0, members |-> <<>>]
JSNull      == [type |-> "null", num |-> 0, members |-> <<>>]
JSNumber(n) == [type |-> "number", num |-> n, members |-> <<>>]
JSObject(m) == [type |-> "object", num |-> 0, members |-> m]

DigitValue(tok) ==
  CASE tok = "0" -> 0 [] tok = "1" -> 1 [] tok = "2" -> 2 [] OTHER -> -1

IsKeyToken(tok) == tok \in {"a", "b"}

RECURSIVE ParseMembers(_)
\* The members of an object after its opening brace: "key":digit pairs
\* separated by commas and closed by a brace.  <<FALSE>> marks a syntax error.
ParseMembers(s) ==
  IF /\ Len(s) >= 6
     /\ s[1] = "\"" /\ IsKeyToken(s[2]) /\ s[3] = "\"" /\ s[4] = ":"
     /\ DigitValue(s[5]) # -1
  THEN LET member == [key |-> s[2], value |-> DigitValue(s[5])]
       IN IF Len(s) = 6 /\ s[6] = "}"
          THEN [ok |-> TRUE, members |-> <<member>>]
          ELSE IF s[6] = "," 
               THEN LET rest == ParseMembers(SubSeq(s, 7, Len(s)))
                    IN [ok |-> rest.ok, members |-> <<member>> \o rest.members]
               ELSE [ok |-> FALSE, members |-> <<>>]
  ELSE [ok |-> FALSE, members |-> <<>>]

\* JSON.parse: throws SyntaxError on text that is not JSON.
JSONparse(s) ==
  IF s = <<"null">> THEN [ok |-> TRUE, value |-> JSNull]
  ELSE IF Len(s) = 1 /\ DigitValue(s[1]) # -1
       THEN [ok |-> TRUE, value |-> JSNumber(DigitValue(s[1]))]
  ELSE IF s = <<"{", "}">> THEN [ok |-> TRUE, value |-> JSObject(<<>>)]
  ELSE IF Len(s) >= 1 /\ s[1] = "{"
       THEN LET m == ParseMembers(SubSeq(s, 2, Len(s)))
            IN [ok |-> m.ok, value |-> JSObject(m.members)]
  ELSE [ok |-> FALSE, value |-> JSUndefined]

(***************************************************************************)
(* Command execution.  An active extension is                              *)
(*   [name, commands, commandFunctions, customizers]:                      *)
(* metadata.name, metadata.contributes.commands, and what its              *)
(* CommandsRegistry (contextImpl.commands) holds.                          *)
(*                                                                         *)
(* A command handler is extension code.  What it does while it runs is an  *)
(* input of the execution: it may dispatch one focus event, then run one   *)
(* command under a temporary state, and then returns a value or throws.    *)
(***************************************************************************)
Returned(st, value, handlers, warnings) ==
  [state |-> st, outcome |-> [kind |-> "return", value |-> value],
   invoked |-> handlers, warned |-> warnings]

Thrown(st, error, handlers, warnings) ==
  [state |-> st, outcome |-> [kind |-> "throw", value |-> error],
   invoked |-> handlers, warned |-> warnings]

\* CommandsRegistry.getCommandFunction(name): is a function registered?
getCommandFunction(ext, commandName) == commandName \in ext.commandFunctions

\* A lookup without the alias.
ResolveExtensionName_NoAlias(name) == name

\* The extension name the command is looked up under.
ResolveExtensionName(name) ==
  IF name = <<"extraterm">> THEN <<"internal-commands">> ELSE name

\* The first active extension of that name (0 when there is none).
FindExtension(exts, extensionName) ==
  LET found == {i \in 1..Len(exts) : exts[i].name = extensionName}
  IN IF found = {} THEN 0 ELSE CHOOSE i \in found : \A j \in found : i <= j

\* A selection that prefers the query portion to the explicit args.
SelectArgs_QueryFirst(args, hasArgsString, parsed) ==
  IF hasArgsString THEN parsed
  ELSE IF args = JSUndefined THEN JSObject(<<>>) ELSE args

\* The args the command function is given.
SelectArgs(args, hasArgsString, parsed) ==
  IF args = JSUndefined
  THEN IF hasArgsString THEN parsed ELSE JSObject(<<>>)
  ELSE args

\* A call of the command function with no failure boundary around it.
RunCommandFunc_NoCatch(name, called) == called

\* try { return commandFunc(args); } catch(ex) { warn } return null;
\* `called` is the run of commandFunc(args).
_runCommandFunc(name, called) ==
  LET Finish(c) ==
        IF c.outcome.kind = "throw"
        THEN Returned(c.state, NULL, c.invoked, c.warned \o <<"threw">>)
        ELSE Returned(c.state, c.outcome.value, c.invoked, c.warned)
  IN CHOOSE result \in { Finish(c) : c \in {called} } : TRUE

RECURSIVE executeCommand(_, _, _, _, _)
RECURSIVE executeCommandWithExtensionWindowState(_, _, _, _, _, _)

\* commandFunc(args): the handler of `commandName` in `ext` runs on the
\* canonical state st and behaves as `behaviour` says.
CommandFunc(exts, st, ext, commandName, args, behaviour) ==
  LET Invocation(ended) ==
        [extension |-> ext.name, command |-> commandName,
         args |-> args, observed |-> st, ended |-> ended]
      st1 == IF behaviour.focus = NULL THEN st
             ELSE updateExtensionWindowStateFromEvent(st, composedPath(behaviour.focus))
      n == behaviour.nested[1]
      \* an error of the nested call is not caught by the handler
      EndAfter(r) == IF r.outcome.kind = "throw" THEN r.outcome ELSE behaviour.end
      AfterNested(r) ==
        [state |-> r.state,
         outcome |-> EndAfter(r),
         invoked |-> <<Invocation(EndAfter(r))>> \o r.invoked,
         warned |-> r.warned]
  IN IF behaviour.nested = <<>>
     THEN [state |-> st1, outcome |-> behaviour.end,
           invoked |-> <<Invocation(behaviour.end)>>, warned |-> <<>>]
     ELSE CHOOSE result \in
            { AfterNested(r) :
                r \in { executeCommandWithExtensionWindowState(
                          exts, st1, n.tempState, n.command, JSUndefined, n.behaviour) } } :
            TRUE

executeCommand(exts, st, command, args, behaviour) ==
  LET qIndex == indexOf(command, "?")
      hasArgsString == qIndex # -1
      commandName == IF hasArgsString THEN slice(command, 0, qIndex) ELSE command
      argsString == IF hasArgsString THEN slice(command, qIndex + 1, Len(command)) ELSE <<>>
      parts == split(commandName, ":")
      extensionName == ResolveExtensionName(parts[1])
      mustParse == args = JSUndefined /\ hasArgsString
      decoded == decodeURIComponent(argsString)
      parsed == JSONparse(decoded.value)
      extIndex == FindExtension(exts, extensionName)
  IN IF Len(parts) # 2 THEN Returned(st, NULL, <<>>, <<"wrong number of colons">>)
     ELSE IF mustParse /\ ~decoded.ok THEN Thrown(st, "URIError", <<>>, <<>>)
     ELSE IF mustParse /\ ~parsed.ok THEN Thrown(st, "SyntaxError", <<>>, <<>>)
     ELSE IF extIndex = 0 THEN Returned(st, NULL, <<>>, <<"unable to find extension">>)
     ELSE IF ~getCommandFunction(exts[extIndex], commandName)
          THEN Returned(st, NULL, <<>>, <<"unable to find command">>)
     ELSE _runCommandFunc(commandName,
            CommandFunc(exts, st, exts[extIndex], commandName,
                        SelectArgs(args, hasArgsString, parsed.value), behaviour))

executeCommandWithExtensionWindowState(exts, st, tempState, command, args, behaviour) ==
  LET oldState == copyExtensionWindowState(st)
      Restore(r) ==
        IF r.outcome.kind = "throw"
        THEN r   \* the error leaves the method before the state is put back
        ELSE [r EXCEPT !.state = _setExtensionWindowState(r.state, oldState)]
  IN CHOOSE result \in
       { Restore(r) :
           r \in { executeCommand(exts, _setExtensionWindowState(st, tempState),
                                  command, args, behaviour) } } :
       TRUE

(***************************************************************************)
(* The command query.                                                      *)
(***************************************************************************)
allCategories ==
  << "textEditing", "terminalCursorMode", "terminal", "viewer",
     "window", "application", "global" >>

\* Array.prototype.indexOf on allCategories: zero-based, -1 when absent.
CategoryIndex(category) == indexOf(allCategories, category)

RECURSIVE StringLess(_, _)
\* JavaScript a < b on strings: lexicographic on the code units.
StringLess(a, b) ==
  IF b = <<>> THEN FALSE
  ELSE IF a = <<>> THEN TRUE
  ELSE IF a[1] # b[1] THEN a[1] < b[1]
  ELSE StringLess(Tail(a), Tail(b))

\* A comparison that stops after the order.
SortCompare_IgnoresTitle(a, b) ==
  LET aIndex == CategoryIndex(a.category)
      bIndex == CategoryIndex(b.category)
  IN IF aIndex # bIndex THEN (IF aIndex < bIndex THEN -1 ELSE 1)
     ELSE IF a.order # b.order THEN (IF a.order < b.order THEN -1 ELSE 1)
     ELSE 0

_sortCompareFunc(a, b) ==
  LET aIndex == CategoryIndex(a.category)
      bIndex == CategoryIndex(b.category)
  IN IF aIndex # bIndex THEN (IF aIndex < bIndex THEN -1 ELSE 1)
     ELSE IF a.order # b.order THEN (IF a.order < b.order THEN -1 ELSE 1)
     ELSE IF a.title # b.title THEN (IF StringLess(a.title, b.title) THEN -1 ELSE 1)
     ELSE 0

RECURSIVE InsertSorted(_, _)
\* x put behind every element that does not sort after it.
InsertSorted(sorted, x) ==
  IF sorted = <<>> THEN <<x>>
  ELSE IF _sortCompareFunc(sorted[Len(sorted)], x) > 0
       THEN Append(InsertSorted(SubSeq(sorted, 1, Len(sorted) - 1), x), sorted[Len(sorted)])
       ELSE Append(sorted, x)

RECURSIVE SortFrom(_, _, _)
SortFrom(list, i, sorted) ==
  IF i > Len(list) THEN sorted
  ELSE SortFrom(list, i + 1, InsertSorted(sorted, list[i]))

\* entries.sort(this._sortCompareFunc): Array.prototype.sort, which is stable.
_sortCommandsInPlace(list) == SortFrom(list, 1, <<>>)

\* Mode.CURSOR or Mode.DEFAULT of a terminal; whether a text editor is editable.
getMode(terminal) == IF terminal \in {"termC"} THEN "CURSOR" ELSE "DEFAULT"
getEditable(textEditor) == textEditor \in {"viewA", "viewC"}

\* Variables whose text editor part does not look at the terminal.
WhenVariables_NoSuppression(st) ==
  LET terminalFocus == st.focusTerminal # NULL
      isCursorMode  == terminalFocus /\ getMode(st.focusTerminal) = "CURSOR"
      textEditorFocus == st.focusTextEditor # NULL
  IN [ true |-> TRUE, false |-> FALSE,
       terminalFocus |-> terminalFocus,
       isCursorMode |-> isCursorMode,
       isNormalMode |-> terminalFocus /\ ~isCursorMode,
       textEditorFocus |-> textEditorFocus,
       isTextEditing |-> textEditorFocus /\ getEditable(st.focusTextEditor),
       viewerFocus |-> ~terminalFocus /\ st.focusViewerElement # NULL ]

_createWhenVariables(st) ==
  LET terminalFocus == st.focusTerminal # NULL
      isCursorMode  == terminalFocus /\ getMode(st.focusTerminal) = "CURSOR"
      isNormalMode  == terminalFocus /\ getMode(st.focusTerminal) # "CURSOR"
      viewerFocus   == ~terminalFocus /\ st.focusViewerElement # NULL
      textEditorFocus == st.focusTextEditor # NULL /\ ~(terminalFocus /\ isNormalMode)
      isTextEditing == textEditorFocus /\ getEditable(st.focusTextEditor)
  IN [ true |-> TRUE, false |-> FALSE,
       terminalFocus |-> terminalFocus,
       isCursorMode |-> isCursorMode,
       isNormalMode |-> isNormalMode,
       textEditorFocus |-> textEditorFocus,
       isTextEditing |-> isTextEditing,
       viewerFocus |-> viewerFocus ]

\* BooleanExpressionEvaluator.evaluate: an expression is the name of a
\* variable, or "!" and the name of a variable.
evaluate(variables, expression) ==
  IF Len(expression) = 2 THEN ~variables[expression[2]] ELSE variables[expression[1]]

\* A when predicate that hands every clause to the evaluator, which finds no
\* true expression in an empty clause.
WhenPredicate_AlwaysEvaluates(st, ecc) ==
  [ result |-> IF ecc.when = <<>> THEN FALSE
               ELSE evaluate(_createWhenVariables(st), ecc.when),
    evaluated |-> <<ecc.when>> ]

\* The predicate _createWhenPredicate(state) returns, applied to ecc: its
\* result, and the expressions it gave bee.evaluate.
_createWhenPredicate(st, ecc) ==
  IF ecc.when = <<>> THEN [result |-> TRUE, evaluated |-> <<>>]
  ELSE [ result |-> evaluate(_createWhenVariables(st), ecc.when),
         evaluated |-> <<ecc.when>> ]

WhenPredicate(st, ecc) == _createWhenPredicate(st, ecc).result

Has(options, field) == field \in DOMAIN options

Contains(list, x) == \E i \in 1..Len(list) : list[i] = x

\* The predicates that are tested before the when predicate.
QualifiesBeforeWhen(options, command) ==
  /\ Has(options, "commandsWithCategories") =>
       \E i \in 1..Len(options.commandsWithCategories) :
          /\ options.commandsWithCategories[i].category = command.category
          /\ options.commandsWithCategories[i].command = command.command
  /\ Has(options, "commandPalette") => command.commandPalette = options.commandPalette
  /\ Has(options, "contextMenu") => command.contextMenu = options.contextMenu
  /\ Has(options, "emptyPaneMenu") => command.emptyPaneMenu = options.emptyPaneMenu
  /\ Has(options, "newTerminalMenu") => command.newTerminalMenu = options.newTerminalMenu
  /\ Has(options, "categories") => Contains(options.categories, command.category)

\* options.when ? this._createWhenPredicate(context) : truePredicate
UsesWhen(options) == Has(options, "when") /\ options.when

\* A conjunction that leaves the category filter out.
Qualifies_IgnoresCategories(options, context, command) ==
  /\ Has(options, "commandsWithCategories") =>
       \E i \in 1..Len(options.commandsWithCategories) :
          /\ options.commandsWithCategories[i].category = command.category
          /\ options.commandsWithCategories[i].command = command.command
  /\ Has(options, "commandPalette") => command.commandPalette = options.commandPalette
  /\ Has(options, "contextMenu") => command.contextMenu = options.contextMenu
  /\ Has(options, "emptyPaneMenu") => command.emptyPaneMenu = options.emptyPaneMenu
  /\ Has(options, "newTerminalMenu") => command.newTerminalMenu = options.newTerminalMenu
  /\ UsesWhen(options) => WhenPredicate(context, command)

\* The conjunction of the predicates the options ask for.
Qualifies(options, context, command) ==
  /\ QualifiesBeforeWhen(options, command)
  /\ UsesWhen(options) => WhenPredicate(context, command)

\* { ...command, ...customizer() }
Customize(command, custom) ==
  [f \in DOMAIN command \cup DOMAIN custom |->
     IF f \in DOMAIN custom THEN custom[f] ELSE command[f]]

\* CommandsRegistry.getFunctionCustomizer(command) != null
getFunctionCustomizer(ext, commandName) == commandName \in ext.customizers

RECURSIVE CollectCommands(_, _, _, _, _)
\* The inner loop: the qualifying commands of one extension from index i on.
CollectCommands(ext, i, options, context, custom) ==
  IF i > Len(ext.commands) THEN <<>>
  ELSE LET command == ext.commands[i]
           rest == CollectCommands(ext, i + 1, options, context, custom)
       IN IF Qualifies(options, context, command)
          THEN IF getFunctionCustomizer(ext, command.command)
               THEN <<Customize(command, custom)>> \o rest
               ELSE <<command>> \o rest
          ELSE rest

RECURSIVE CollectEntries(_, _, _, _, _)
\* The outer loop over the active extensions from index e on.
CollectEntries(exts, e, options, context, custom) ==
  IF e > Len(exts) THEN <<>>
  ELSE CollectCommands(exts[e], 1, options, context, custom)
         \o CollectEntries(exts, e + 1, options, context, custom)

\* `custom` is what a function customizer returns when the query calls it.
queryCommandsWithExtensionWindowState(exts, options, context, custom) ==
  _sortCommandsInPlace(CollectEntries(exts, 1, options, context, custom))

queryCommands(exts, st, options, custom) ==
  queryCommandsWithExtensionWindowState(exts, options, st, custom)

RECURSIVE EvaluatedCommands(_, _, _, _)
\* The expressions the when predicate gives the evaluator in the inner loop:
\* && tests it last, on the commands the other predicates let through.
EvaluatedCommands(ext, i, options, context) ==
  IF i > Len(ext.commands) THEN <<>>
  ELSE LET command == ext.commands[i]
           rest == EvaluatedCommands(ext, i + 1, options, context)
       IN IF QualifiesBeforeWhen(options, command) /\ UsesWhen(options)
          THEN _createWhenPredicate(context, command).evaluated \o rest
          ELSE rest

RECURSIVE EvaluatedEntries(_, _, _, _)
\* The expressions a query gives the evaluator, in order.
EvaluatedEntries(exts, e, options, context) ==
  IF e > Len(exts) THEN <<>>
  ELSE EvaluatedCommands(exts[e], 1, options, context)
         \o EvaluatedEntries(exts, e + 1, options, context)

(***************************************************************************)
(* The extensions WebIpc.requestExtensionMetadataSync() reports, in        *)
(* discovery order.                                                        *)
(***************************************************************************)
Contribution(command, title, category, order, commandPalette, contextMenu, when) ==
  [ command |-> command, title |-> title, category |-> category, order |-> order,
    commandPalette |-> commandPalette, contextMenu |-> contextMenu,
    emptyPaneMenu |-> FALSE, newTerminalMenu |-> FALSE, when |-> when ]

Metadata(name, main, mainProcess, supported, loads, activates, commands, functions, customizers) ==
  [ name |-> name, main |-> main, isMainProcess |-> mainProcess,
    isSupported |-> supported, loads |-> loads, activates |-> activates,
    commands |-> commands, commandFunctions |-> functions, customizers |-> customizers ]

ExtensionMetadataList ==
  << Metadata(<<"internal-commands">>, NULL, FALSE, TRUE, TRUE, TRUE,
       << Contribution(<<"extraterm", ":", "foo">>, <<1>>, "terminal", 2, TRUE, FALSE, <<>>),
          [ Contribution(<<"extraterm", ":", "new">>, <<4>>, "window", 1, FALSE, FALSE, <<>>)
              EXCEPT !.emptyPaneMenu = TRUE, !.newTerminalMenu = TRUE ] >>,
       {<<"extraterm", ":", "foo">>}, {}),
     Metadata(<<"main-only">>, "main.js", TRUE, TRUE, TRUE, TRUE,
       << Contribution(<<"main-only", ":", "cmd">>, <<1>>, "global", 1, TRUE, TRUE, <<>>) >>,
       {}, {}),
     Metadata(<<"extraterm">>, "main.js", FALSE, TRUE, TRUE, TRUE,
       <<>>, {<<"extraterm", ":", "foo">>}, {}),
     Metadata(<<"no-module">>, "main.js", FALSE, TRUE, FALSE, TRUE, <<>>, {}, {}),
     Metadata(<<"ext">>, "main.js", FALSE, TRUE, TRUE, TRUE,
       << Contribution(<<"ext", ":", "cmd">>, <<2>>, "terminal", 2, TRUE, TRUE,
                       <<"terminalFocus">>),
          Contribution(<<"ext", ":", "one">>, <<1>>, "terminal", 2, TRUE, FALSE, <<>>),
          Contribution(<<"ext", ":", "two">>, <<1>>, "terminal", 2, FALSE, TRUE,
                       <<"!", "terminalFocus">>),
          Contribution(<<"ext", ":", "edit">>, <<1, 2>>, "textEditing", 5, TRUE, TRUE,
                       <<"textEditorFocus">>) >>,
       {<<"ext", ":", "cmd">>}, {<<"ext", ":", "cmd">>}),
     Metadata(<<"throws">>, "main.js", FALSE, TRUE, TRUE, FALSE,
       << Contribution(<<"throws", ":", "cmd">>, <<1>>, "global", 1, TRUE, TRUE, <<>>) >>,
       {}, {}),
     Metadata(<<"other-os">>, "main.js", FALSE, FALSE, TRUE, TRUE, <<>>, {}, {}) >>

isMainProcessExtension(metadata) == metadata.isMainProcess
isSupportedOnThisPlatform(metadata) == metadata.isSupported

\* module == null when require() throws.
_loadExtensionModule(metadata) == IF metadata.loads THEN "module" ELSE NULL

\* A start that pushes the extension whether or not its module came up.
StartExtension_AlwaysPushes(active, metadata) ==
  Append(active, [ name |-> metadata.name,
                   commands |-> metadata.commands,
                   commandFunctions |-> metadata.commandFunctions,
                   customizers |-> metadata.customizers ])

_startExtension(active, metadata) ==
  IF metadata.main # NULL /\ _loadExtensionModule(metadata) = NULL THEN active
  ELSE IF metadata.main # NULL /\ ~metadata.activates THEN active
  ELSE Append(active, [ name |-> metadata.name,
                        commands |-> metadata.commands,
                        commandFunctions |-> metadata.commandFunctions,
                        customizers |-> metadata.customizers ])

RECURSIVE StartFrom(_, _, _)
StartFrom(list, i, active) ==
  IF i > Len(list) THEN active
  ELSE IF ~isMainProcessExtension(list[i]) /\ isSupportedOnThisPlatform(list[i])
       THEN StartFrom(list, i + 1, _startExtension(active, list[i]))
       ELSE StartFrom(list, i + 1, active)

startUp(list) == StartFrom(list, 1, <<>>)

\* The contextImpl of the first active extension of that name (named here
\* by the extension), or null.
getExtensionContextByName(exts, name) ==
  IF FindExtension(exts, name) = 0 THEN NULL ELSE exts[FindExtension(exts, name)].name

(***************************************************************************)
(* InternalExtensionContextImpl.registerCommandContribution and the        *)
(* disposable it returns.  A contribution object is identified by its      *)
(* content; a handle is [extension, contribution, disposed]: the index of  *)
(* the active extension whose context registered the contribution, the     *)
(* contribution, and whether dispose() has been called on it before.       *)
(***************************************************************************)
\* Array.prototype.splice(start, deleteCount): the array that is left.
splice(list, start, deleteCount) ==
  LET len == Len(list)
      relativeStart == IF start < 0
                       THEN (IF len + start < 0 THEN 0 ELSE len + start)
                       ELSE (IF start > len THEN len ELSE start)
      count == IF deleteCount < 0 THEN 0
               ELSE IF deleteCount > len - relativeStart THEN len - relativeStart
               ELSE deleteCount
  IN SubSeq(list, 1, relativeStart) \o SubSeq(list, relativeStart + count + 1, len)

\* this.extensionMetadata.contributes.commands.push(contribution)
registerCommandContribution(exts, e, contribution) ==
  [exts EXCEPT ![e].commands = Append(@, contribution)]

\* dispose(): index = commands.indexOf(contribution); commands.splice(index, 1)
dispose(exts, e, contribution) ==
  [exts EXCEPT ![e].commands = splice(@, indexOf(@, contribution), 1)]

(***************************************************************************)
(* The inputs the operations are called with.                              *)
(***************************************************************************)
\* The focus events of tab A and tab B.
EventTargets ==
  {"body", "tabs", "divA", "divB", "paneA", "termA", "viewA", "paneB", "inputB"}

\* The focus events of the whole window.
FocusTargets == Nodes

CommandStrings ==
  { <<"ext", ":", "cmd">>,
    <<"ext", ":", "cmd", "?", "%7B", "%22", "a", "%22", "%3A", "1", "%7D">>,
    <<"ext", ":", "cmd", "?", "{", "\"", "a", "\"", ":", "1", "}">>,
    <<"ext", ":", "cmd", "?", "?", "{", "}">>,
    <<"ext", ":", "cmd", "?", "%">>,
    <<"ext", ":", "cmd", "?">>,
    <<"ext", ":", "missing">>,
    <<"ext", ":", "missing", "?", "{", "a">>,
    <<"extraterm", ":", "foo">>,
    <<"internal-commands", ":", "foo">>,
    <<"unknown", ":", "cmd">>,
    <<"unknown", ":", "cmd", "?", "%">>,
    <<"bad-command-no-colon">>,
    <<"bad-command-no-colon", "?", "%">>,
    <<"ext", "?", ":", "cmd">>,
    <<"ext", ":", "cmd", ":", "x">> }

ArgValues == { JSUndefined, JSNull, JSObject(<< [key |-> "b", value |-> 2] >>) }

\* Temporary states: what a context menu event on a node captured.
TempStates ==
  { getExtensionWindowStateFromEvent(composedPath(t)) : t \in {"viewA", "inputB", "body"} }

HandlerEnds ==
  { [kind |-> "return", value |-> "result"], [kind |-> "throw", value |-> "Error"] }

IdleBehaviour ==
  [focus |-> NULL, nested |-> <<>>, end |-> [kind |-> "return", value |-> "result"]]

\* The focus events a handler dispatches.
HandlerTargets == {"paneB"}

\* The temporary state of a nested execution.
NestedTempState == getExtensionWindowStateFromEvent(composedPath("termA"))

RECURSIVE Behaviours(_)
\* What a handler may do with `depth` levels of nested execution left.
Behaviours(depth) ==
  LET nestedCalls ==
        IF depth = 0 THEN {<<>>}
        ELSE {<<>>}
             \cup { << [tempState |-> NestedTempState, command |-> <<"ext", ":", "cmd">>,
                        behaviour |-> b] >> : b \in Behaviours(depth - 1) }
             \cup { << [tempState |-> NestedTempState,
                        command |-> <<"ext", ":", "cmd", "?", "%">>,
                        behaviour |-> IdleBehaviour] >> }
  IN { [focus |-> f, nested |-> n, end |-> e] :
         f \in HandlerTargets \cup {NULL}, n \in nestedCalls, e \in HandlerEnds }

HandlerBehaviours == Behaviours(MaxDepth)

SimpleBehaviours == Behaviours(0)

\* Executions whose handler re-enters the manager, and executions that end
\* without a handler: <<command, args, behaviour>>.
ReentrantExecutions ==
  { <<c, JSUndefined, b>> : c \in {<<"ext", ":", "cmd">>}, b \in HandlerBehaviours }
    \cup { <<c, JSUndefined, IdleBehaviour>> :
             c \in { <<"ext", ":", "cmd", "?", "%">>, <<"unknown", ":", "cmd">> } }

\* Every command string with every args value; the handler returns or throws.
ParsedExecutions ==
  { <<c, a, b>> : c \in CommandStrings, a \in ArgValues, b \in SimpleBehaviours }

QueryOptions ==
  { << >>,
    [commandPalette |-> TRUE],
    [contextMenu |-> TRUE, when |-> TRUE],
    [categories |-> <<"terminal", "window">>],
    [commandsWithCategories |-> << [category |-> "terminal", command |-> <<"ext", ":", "one">>],
                                   [category |-> "textEditing", command |-> <<"ext", ":", "edit">>] >>],
    [when |-> TRUE],
    [commandPalette |-> FALSE],
    [contextMenu |-> FALSE, when |-> FALSE],
    [emptyPaneMenu |-> TRUE],
    [newTerminalMenu |-> FALSE, categories |-> <<"terminal", "textEditing">>] }

\* The states a query is asked about.
QueryContexts ==
  { getExtensionWindowStateFromEvent(composedPath(t)) :
      t \in {"viewA", "inputB", "textB", "termC", "viewC"} }

\* What the metadata source may report: up to MaxExtensions of the
\* descriptors, each at most once, in any order.
DiscoveryResults ==
  UNION { { [i \in 1..n |-> ExtensionMetadataList[pick[i]]] :
              pick \in { f \in [1..n -> 1..Len(ExtensionMetadataList)] :
                            \A i, j \in 1..n : i # j => f[i] # f[j] } } :
          n \in 0..MaxExtensions }

\* The names getExtensionContextByName is asked for.
ExtensionNames ==
  { ExtensionMetadataList[m].name : m \in 1..Len(ExtensionMetadataList) } \cup {<<"unknown">>}

\* The contribution objects extensions register at runtime.
RuntimeContributions ==
  { Contribution(<<"ext", ":", "late">>, <<7>>, "window", 3, TRUE, FALSE, <<>>),
    Contribution(<<"ext", ":", "later">>, <<8>>, "global", 3, TRUE, TRUE, <<"terminalFocus">>) }

\* The extensions whose contexts register contributions at runtime.
RegisteringExtensions == { <<"ext">>, <<"extraterm">> }

\* The options of the queries that look for runtime contributions.
RuntimeQueryOptions == { << >>, [commandPalette |-> TRUE, categories |-> <<"window", "global">>] }

\* Executions that end without a handler, and one whose handler dispatches
\* a focus event.
FrameExecutions ==
  { <<c, JSUndefined, IdleBehaviour>> :
      c \in { <<"unknown", ":", "cmd">>, <<"ext", ":", "missing">>,
              <<"bad-command-no-colon">>, <<"ext", ":", "cmd", "?", "%">> } }
    \cup { << <<"ext", ":", "cmd">>, JSUndefined,
              [IdleBehaviour EXCEPT !.focus = "paneB"] >> }

\* The options of the queries of the frame check.
FrameQueryOptions == { << >>, [contextMenu |-> TRUE, when |-> TRUE] }

CustomizerResults ==
  { << >>, [title |-> <<0>>], [order |-> 1, title |-> <<3>>], [category |-> "global"] }

(***************************************************************************)
(* The state machine.                                                      *)
(***************************************************************************)
NoCall ==
  [ op |-> "none", command |-> <<>>, args |-> JSUndefined,
    tempState |-> EmptyExtensionWindowState, target |-> NULL, options |-> << >>,
    metadata |-> <<>>, name |-> <<>>, handle |-> 0 ]

NoOutcome == [kind |-> "none", value |-> NULL]

Init ==
  /\ started = FALSE
  /\ activeExtensions = <<>>
  /\ state = EmptyExtensionWindowState
  /\ before = EmptyExtensionWindowState
  /\ call = NoCall
  /\ outcome = NoOutcome
  /\ invoked = <<>>
  /\ warned = <<>>
  /\ entries = <<>>
  /\ evaluated = <<>>
  /\ handles = <<>>

\* startUp() when the metadata source reports `list`.
StartUpWith(list) ==
  /\ ~started
  /\ started' = TRUE
  /\ activeExtensions' = startUp(list)
  /\ call' = [NoCall EXCEPT !.op = "startUp", !.metadata = list]
  /\ outcome' = [kind |-> "return", value |-> NULL]
  /\ invoked' = <<>> /\ warned' = <<>> /\ entries' = <<>> /\ evaluated' = <<>>
  /\ before' = state
  /\ UNCHANGED <<state, handles>>

UpdateExtensionWindowStateFromEvent(target) ==
  /\ state' = updateExtensionWindowStateFromEvent(state, composedPath(target))
  /\ before' = state
  /\ call' = [NoCall EXCEPT !.op = "updateExtensionWindowStateFromEvent", !.target = target]
  /\ outcome' = [kind |-> "return", value |-> NULL]
  /\ invoked' = <<>> /\ warned' = <<>> /\ entries' = <<>> /\ evaluated' = <<>>
  /\ UNCHANGED <<started, activeExtensions, handles>>

ExecuteCommand(command, args, behaviour) ==
  \E run \in {executeCommand(activeExtensions, state, command, args, behaviour)} :
     /\ state' = run.state
     /\ before' = state
     /\ call' = [NoCall EXCEPT !.op = "executeCommand", !.command = command, !.args = args]
     /\ outcome' = run.outcome
     /\ invoked' = run.invoked
     /\ warned' = run.warned
     /\ entries' = <<>> /\ evaluated' = <<>>
     /\ UNCHANGED <<started, activeExtensions, handles>>

ExecuteCommandWithExtensionWindowState(tempState, command, args, behaviour) ==
  \E run \in {executeCommandWithExtensionWindowState(
                 activeExtensions, state, tempState, command, args, behaviour)} :
     /\ state' = run.state
     /\ before' = state
     /\ call' = [NoCall EXCEPT !.op = "executeCommandWithExtensionWindowState",
                               !.command = command, !.args = args,
                               !.tempState = tempState]
     /\ outcome' = run.outcome
     /\ invoked' = run.invoked
     /\ warned' = run.warned
     /\ entries' = <<>> /\ evaluated' = <<>>
     /\ UNCHANGED <<started, activeExtensions, handles>>

QueryCommands(options, custom) ==
  /\ entries' = queryCommands(activeExtensions, state, options, custom)
  /\ evaluated' = EvaluatedEntries(activeExtensions, 1, options, state)
  /\ call' = [NoCall EXCEPT !.op = "queryCommands", !.options = options]
  /\ outcome' = [kind |-> "return", value |-> NULL]
  /\ invoked' = <<>> /\ warned' = <<>>
  /\ before' = state
  /\ UNCHANGED <<started, activeExtensions, state, handles>>

\* A query that leaves the given context in the canonical state.
QueryWithState_KeepsContext(options, context, custom) ==
  /\ entries' = queryCommandsWithExtensionWindowState(activeExtensions, options, context, custom)
  /\ evaluated' = EvaluatedEntries(activeExtensions, 1, options, context)
  /\ call' = [NoCall EXCEPT !.op = "queryCommandsWithExtensionWindowState",
                            !.options = options, !.tempState = context]
  /\ outcome' = [kind |-> "return", value |-> NULL]
  /\ invoked' = <<>> /\ warned' = <<>>
  /\ before' = state
  /\ state' = _setExtensionWindowState(state, context)
  /\ UNCHANGED <<started, activeExtensions, handles>>

QueryCommandsWithExtensionWindowState(options, context, custom) ==
  /\ entries' = queryCommandsWithExtensionWindowState(activeExtensions, options, context, custom)
  /\ evaluated' = EvaluatedEntries(activeExtensions, 1, options, context)
  /\ call' = [NoCall EXCEPT !.op = "queryCommandsWithExtensionWindowState",
                            !.options = options, !.tempState = context]
  /\ outcome' = [kind |-> "return", value |-> NULL]
  /\ invoked' = <<>> /\ warned' = <<>>
  /\ before' = state
  /\ UNCHANGED <<started, activeExtensions, state, handles>>

StartUp == StartUpWith(ExtensionMetadataList)

GetExtensionContextByName(name) ==
  /\ call' = [NoCall EXCEPT !.op = "getExtensionContextByName", !.name = name]
  /\ outcome' = [kind |-> "return", value |-> getExtensionContextByName(activeExtensions, name)]
  /\ invoked' = <<>> /\ warned' = <<>> /\ entries' = <<>> /\ evaluated' = <<>>
  /\ before' = state
  /\ UNCHANGED <<started, activeExtensions, state, handles>>

\* getExtensionWindowStateFromEvent(ev): the snapshot is returned, not merged.
GetExtensionWindowStateFromEvent(target) ==
  /\ call' = [NoCall EXCEPT !.op = "getExtensionWindowStateFromEvent", !.target = target]
  /\ outcome' = [kind |-> "return",
                 value |-> getExtensionWindowStateFromEvent(composedPath(target))]
  /\ invoked' = <<>> /\ warned' = <<>> /\ entries' = <<>> /\ evaluated' = <<>>
  /\ before' = state
  /\ UNCHANGED <<started, activeExtensions, state, handles>>

CopyExtensionWindowState ==
  /\ call' = [NoCall EXCEPT !.op = "copyExtensionWindowState"]
  /\ outcome' = [kind |-> "return", value |-> copyExtensionWindowState(state)]
  /\ invoked' = <<>> /\ warned' = <<>> /\ entries' = <<>> /\ evaluated' = <<>>
  /\ before' = state
  /\ UNCHANGED <<started, activeExtensions, state, handles>>

RegisterCommandContribution(e, contribution) ==
  /\ Len(handles) < MaxHandles
  /\ activeExtensions' = registerCommandContribution(activeExtensions, e, contribution)
  /\ handles' = Append(handles, [extension |-> e, contribution |-> contribution,
                                  disposed |-> FALSE])
  /\ call' = [NoCall EXCEPT !.op = "registerCommandContribution",
                            !.handle = Len(handles) + 1]
  /\ outcome' = [kind |-> "return", value |-> NULL]
  /\ invoked' = <<>> /\ warned' = <<>> /\ entries' = <<>> /\ evaluated' = <<>>
  /\ before' = state
  /\ UNCHANGED <<started, state>>

\* dispose() of the h-th handle.
Dispose(h) ==
  /\ activeExtensions' =
       dispose(activeExtensions, handles[h].extension, handles[h].contribution)
  /\ handles' = [handles EXCEPT ![h].disposed = TRUE]
  /\ call' = [NoCall EXCEPT !.op = "dispose", !.handle = h]
  /\ outcome' = [kind |-> "return", value |-> NULL]
  /\ invoked' = <<>> /\ warned' = <<>> /\ entries' = <<>> /\ evaluated' = <<>>
  /\ before' = state
  /\ UNCHANGED <<started, state>>

\* Focus events and executions whose handlers re-enter the manager.
Next ==
  \/ StartUp
  \/ \E target \in EventTargets : UpdateExtensionWindowStateFromEvent(target)
  \/ \E x \in ReentrantExecutions : ExecuteCommand(x[1], x[2], x[3])
  \/ \E tempState \in TempStates, x \in ReentrantExecutions :
       ExecuteCommandWithExtensionWindowState(tempState, x[1], x[2], x[3])

Spec == Init /\ [][Next]_vars

\* Command execution over every command string and args value.
NextExec ==
  \/ StartUp
  \/ \E x \in ParsedExecutions : ExecuteCommand(x[1], x[2], x[3])

SpecExec == Init /\ [][NextExec]_vars

\* Queries in every focus state.
NextQuery ==
  \/ StartUp
  \/ \E target \in EventTargets : UpdateExtensionWindowStateFromEvent(target)
  \/ \E options \in QueryOptions, custom \in CustomizerResults :
       QueryCommands(options, custom)
  \/ \E options \in QueryOptions, context \in QueryContexts, custom \in CustomizerResults :
       QueryCommandsWithExtensionWindowState(options, context, custom)

SpecQuery == Init /\ [][NextQuery]_vars

\* Start-up with whatever the metadata source reports, and lookups by name.
NextStart ==
  \/ \E list \in DiscoveryResults : StartUpWith(list)
  \/ \E name \in ExtensionNames : GetExtensionContextByName(name)

SpecStart == Init /\ [][NextStart]_vars

\* Focus events anywhere in the window, merged or only classified.
NextFocus ==
  \/ \E target \in FocusTargets : UpdateExtensionWindowStateFromEvent(target)
  \/ \E target \in FocusTargets : GetExtensionWindowStateFromEvent(target)
  \/ CopyExtensionWindowState

SpecFocus == Init /\ [][NextFocus]_vars

\* The operations that read the canonical state, among focus events,
\* executions and runtime contributions that change what they read.
NextFrame ==
  \/ StartUp
  \/ \E target \in EventTargets : UpdateExtensionWindowStateFromEvent(target)
  \/ \E target \in EventTargets : GetExtensionWindowStateFromEvent(target)
  \/ CopyExtensionWindowState
  \/ \E name \in ExtensionNames : GetExtensionContextByName(name)
  \/ \E options \in FrameQueryOptions : QueryCommands(options, [title |-> <<0>>])
  \/ \E options \in FrameQueryOptions, context \in QueryContexts :
       QueryCommandsWithExtensionWindowState(options, context, [title |-> <<0>>])
  \/ \E x \in FrameExecutions : ExecuteCommand(x[1], x[2], x[3])

SpecFrame == Init /\ [][NextFrame]_vars

\* Contributions registered and disposed at runtime, and queries.
NextRegister ==
  \/ StartUp
  \/ \E e \in 1..Len(activeExtensions), contribution \in RuntimeContributions :
       /\ activeExtensions[e].name \in RegisteringExtensions
       /\ RegisterCommandContribution(e, contribution)
  \/ \E h \in 1..Len(handles) : Dispose(h)
  \/ \E options \in RuntimeQueryOptions : QueryCommands(options, << >>)

SpecRegister == Init /\ [][NextRegister]_vars

(***************************************************************************)
(* Properties of the focus-state merge and of the temporary state,         *)
(* checked under Spec.                                                     *)
(***************************************************************************)
IsUpdate == call.op = "updateExtensionWindowStateFromEvent"

IsTemporary == call.op = "executeCommandWithExtensionWindowState"

\* What the event of the most recent update found.
EventFound == getExtensionWindowStateFromEvent(composedPath(call.target))

SameTab == EventFound.activeTabContent = before.activeTabContent

\* The value of a sticky field: what the event found, else the previous value.
Retained(found, previous) == IF found = NULL THEN previous ELSE found

\* C1: after an update whose event has the tab content of the canonical
\* state, each active field is what the event found when it found one and
\* its previous value when it found none, so a non-null active field never
\* becomes null.
C1_StickyRetention ==
  (IsUpdate /\ SameTab) =>
    /\ state.activeTerminal = Retained(EventFound.focusTerminal, before.activeTerminal)
    /\ state.activeTextEditor = Retained(EventFound.focusTextEditor, before.activeTextEditor)
    /\ state.activeViewerElement =
         Retained(EventFound.focusViewerElement, before.activeViewerElement)
    /\ before.activeTerminal # NULL => state.activeTerminal # NULL
    /\ before.activeTextEditor # NULL => state.activeTextEditor # NULL
    /\ before.activeViewerElement # NULL => state.activeViewerElement # NULL

\* An event in the same tab found no terminal and no text editor while both
\* were active, and they are still active.
C1_Witness ==
  /\ IsUpdate /\ SameTab
  /\ before.activeTerminal # NULL /\ EventFound.focusTerminal = NULL
  /\ before.activeTextEditor # NULL /\ EventFound.focusTextEditor = NULL
  /\ state.activeTerminal = before.activeTerminal
  /\ state.activeTextEditor = before.activeTextEditor

\* C2: after an update whose event has another tab content than the
\* canonical state, the active and the focus terminal, text editor and
\* viewer element are exactly what the event found, null included.
C2_NoRetentionAcrossTabs ==
  (IsUpdate /\ ~SameTab) =>
    /\ state.activeTerminal = EventFound.focusTerminal
    /\ state.focusTerminal = EventFound.focusTerminal
    /\ state.activeTextEditor = EventFound.focusTextEditor
    /\ state.focusTextEditor = EventFound.focusTextEditor
    /\ state.activeViewerElement = EventFound.focusViewerElement
    /\ state.focusViewerElement = EventFound.focusViewerElement

\* A switch to a tab where the event found nothing blanked fields that
\* were set.
C2_Witness ==
  /\ IsUpdate /\ ~SameTab
  /\ before.activeTerminal # NULL /\ before.focusTerminal # NULL
  /\ before.activeViewerElement # NULL
  /\ EventFound.focusTerminal = NULL /\ EventFound.focusViewerElement = NULL
  /\ state.activeTerminal = NULL /\ state.focusTerminal = NULL
  /\ state.activeViewerElement = NULL

\* C3: executeCommandWithExtensionWindowState leaves every field of the
\* canonical state as it was immediately before the call, however the
\* command ends.
C3_CanonicalStateRestored == IsTemporary => state = before

\* C4: when executeCommandWithExtensionWindowState invokes the command
\* handler, every field of the canonical state equals the temporary state;
\* the same holds of the executions a handler nests.
C4_HandlerObservesTempState ==
  /\ (IsTemporary /\ invoked # <<>>) => invoked[1].observed = call.tempState
  /\ \A k \in 2..Len(invoked) : invoked[k].observed = NestedTempState

\* A handler ran under a temporary state that differs from the canonical
\* state in a focus field and in an active field.
C4_Witness ==
  /\ IsTemporary /\ invoked # <<>>
  /\ call.tempState.focusTerminal # before.focusTerminal
  /\ call.tempState.activeTabContent # before.activeTabContent
  /\ invoked[1].observed = call.tempState

(***************************************************************************)
(* Properties of executeCommand, checked under SpecExec.                   *)
(***************************************************************************)
IsExecute == call.op = "executeCommand"

ReturnedValue(value) == outcome = [kind |-> "return", value |-> value]

QuestionMarks(command) == {i \in 1..Len(command) : command[i] = "?"}

HasQueryPortion(command) == QuestionMarks(command) # {}

FirstQuestionMark(command) ==
  CHOOSE i \in QuestionMarks(command) : \A j \in QuestionMarks(command) : i <= j

\* The command string before its first "?".
NamePortion(command) ==
  IF HasQueryPortion(command)
  THEN SubSeq(command, 1, FirstQuestionMark(command) - 1) ELSE command

\* The command string after its first "?".
QueryPortion(command) == SubSeq(command, FirstQuestionMark(command) + 1, Len(command))

Colons(name) == {i \in 1..Len(name) : name[i] = ":"}

HasOneColon(command) == Cardinality(Colons(NamePortion(command))) = 1

\* The extension name a well-formed command string names.
NamedExtension(command) ==
  LET name == NamePortion(command)
  IN SubSeq(name, 1, (CHOOSE i \in Colons(name) : TRUE) - 1)

\* The name of the extension the command string resolves to.
ResolvedExtension(command) ==
  IF NamedExtension(command) = <<"extraterm">>
  THEN <<"internal-commands">> ELSE NamedExtension(command)

ActiveNamed(name) == {i \in 1..Len(activeExtensions) : activeExtensions[i].name = name}

\* C5: when executeCommand invokes a handler and the handler throws,
\* executeCommand returns null and raises nothing; when the handler returns,
\* executeCommand returns the handler's result.
C5_HandlerFailureContained ==
  (IsExecute /\ invoked # <<>>) =>
    /\ invoked[1].ended.kind = "throw" => ReturnedValue(NULL)
    /\ invoked[1].ended.kind = "return" => ReturnedValue(invoked[1].ended.value)

\* A handler threw and executeCommand returned null.
C5_Witness ==
  /\ IsExecute /\ invoked # <<>>
  /\ invoked[1].ended.kind = "throw"
  /\ ReturnedValue(NULL)
  /\ warned = <<"threw">>

\* C6: executeCommand never raises to its caller, whatever the command
\* string, the args and the active extensions are.
C6_NeverRaises == IsExecute => outcome.kind = "return"

\* C7: when the name portion has not exactly one colon, or no active
\* extension has the resolved name, or that extension has no function for
\* the command, executeCommand returns null and invokes no handler.
C7_UnresolvedReturnsNull ==
  ( /\ IsExecute
    /\ \/ ~HasOneColon(call.command)
       \/ ActiveNamed(ResolvedExtension(call.command)) = {}
       \/ \E i \in ActiveNamed(ResolvedExtension(call.command)) :
             NamePortion(call.command) \notin activeExtensions[i].commandFunctions )
  => (ReturnedValue(NULL) /\ invoked = <<>>)

\* C8: the handler receives the explicit args when the caller gave some,
\* else the URL-decoded and JSON-parsed query portion when the string has
\* one, else an empty object.
C8_ArgumentSelection ==
  (IsExecute /\ invoked # <<>>) =>
    /\ call.args # JSUndefined => invoked[1].args = call.args
    /\ (call.args = JSUndefined /\ HasQueryPortion(call.command)) =>
         invoked[1].args =
           JSONparse(decodeURIComponent(QueryPortion(call.command)).value).value
    /\ (call.args = JSUndefined /\ ~HasQueryPortion(call.command)) =>
         invoked[1].args = JSObject(<<>>)
    /\ ( /\ call.args = JSUndefined
         /\ call.command = <<"ext", ":", "cmd", "?", "%7B", "%22", "a", "%22", "%3A", "1", "%7D">> )
       => invoked[1].args = JSObject(<< [key |-> "a", value |-> 1] >>)

\* execute("ext:cmd?%7B%22a%22%3A1%7D") without args gave the handler {a: 1}.
C8_Witness ==
  /\ IsExecute /\ invoked # <<>>
  /\ call.args = JSUndefined
  /\ HasQueryPortion(call.command)
  /\ QueryPortion(call.command) = <<"%7B", "%22", "a", "%22", "%3A", "1", "%7D">>
  /\ invoked[1].args = JSObject(<< [key |-> "a", value |-> 1] >>)

\* C9: a command of extension name "extraterm" is looked up in the active
\* extension named "internal-commands", never in one named "extraterm";
\* any other name is looked up in the extension of exactly that name.
C9_ExtratermAlias ==
  /\ (IsExecute /\ invoked # <<>>) =>
       /\ invoked[1].extension = ResolvedExtension(call.command)
       /\ NamedExtension(call.command) = <<"extraterm">> =>
            invoked[1].extension = <<"internal-commands">>
       /\ NamedExtension(call.command) # <<"extraterm">> =>
            invoked[1].extension = NamedExtension(call.command)
  /\ (IsExecute /\ outcome.kind = "return" /\ HasOneColon(call.command) /\ invoked = <<>>) =>
       (warned = <<"unable to find extension">>
          <=> ActiveNamed(ResolvedExtension(call.command)) = {})

\* "extraterm:foo" ran the handler of "internal-commands" although an
\* active extension named "extraterm" has a function of that name.
C9_Witness ==
  /\ IsExecute /\ invoked # <<>>
  /\ NamePortion(call.command) = <<"extraterm", ":", "foo">>
  /\ invoked[1].extension = <<"internal-commands">>
  /\ \E i \in ActiveNamed(<<"extraterm">>) :
        <<"extraterm", ":", "foo">> \in activeExtensions[i].commandFunctions

(***************************************************************************)
(* Properties of the command query, checked under SpecQuery.               *)
(***************************************************************************)
IsQuery == call.op \in {"queryCommands", "queryCommandsWithExtensionWindowState"}

\* The one-based position of a category in the enumeration.
CategoryRank(category) ==
  CHOOSE i \in 1..Len(allCategories) : allCategories[i] = category

SameKeys(a, b) ==
  a.category = b.category /\ a.order = b.order /\ a.title = b.title

\* a sorts strictly before b by (category rank, order, title).
KeysBefore(a, b) ==
  \/ CategoryRank(a.category) < CategoryRank(b.category)
  \/ /\ a.category = b.category
     /\ \/ a.order < b.order
        \/ a.order = b.order /\ StringLess(a.title, b.title)

\* Where the contribution of an entry is declared: <<extension, index>>.
Declared(entry) ==
  CHOOSE p \in UNION { { <<e, c>> : c \in 1..Len(activeExtensions[e].commands) } :
                        e \in 1..Len(activeExtensions) } :
    activeExtensions[p[1]].commands[p[2]].command = entry.command

DeclaredBefore(a, b) ==
  \/ Declared(a)[1] < Declared(b)[1]
  \/ Declared(a)[1] = Declared(b)[1] /\ Declared(a)[2] < Declared(b)[2]

\* C10: the list a query returns is sorted ascending by (category rank,
\* order, title) of the returned entries, and entries equal on all three
\* keep their activation and declaration order.
C10_QuerySorted ==
  IsQuery =>
    \A i, j \in 1..Len(entries) :
      i < j => \/ KeysBefore(entries[i], entries[j])
               \/ SameKeys(entries[i], entries[j]) /\ DeclaredBefore(entries[i], entries[j])

\* A query returned a customized entry, two entries with equal keys, and
\* an entry ahead of one declared before it.
C10_Witness ==
  /\ IsQuery /\ Len(entries) >= 4
  /\ \E i \in 1..Len(entries) : entries[i].title = <<0>>
  /\ \E i, j \in 1..Len(entries) : i < j /\ SameKeys(entries[i], entries[j])
  /\ \E i, j \in 1..Len(entries) : i < j /\ DeclaredBefore(entries[j], entries[i])

\* The state a query evaluates the when clauses against.
QueryContext == IF call.op = "queryCommands" THEN state ELSE call.tempState

\* The contributions of the active extensions: <<extension, index>>.
Contributed ==
  UNION { { <<e, c>> : c \in 1..Len(activeExtensions[e].commands) } :
          e \in 1..Len(activeExtensions) }

ContributionAt(p) == activeExtensions[p[1]].commands[p[2]]

FilterPresent(field) == field \in DOMAIN call.options

\* The when clause of c holds in the state the query is about.
WhenHolds(c) ==
  \/ c.when = <<>>
  \/ Len(c.when) = 1 /\ _createWhenVariables(QueryContext)[c.when[1]]
  \/ Len(c.when) = 2 /\ ~_createWhenVariables(QueryContext)[c.when[2]]

\* c passes every filter but the when filter that is present in the options.
PassesFiltersButWhen(c) ==
  /\ FilterPresent("commandPalette") => c.commandPalette = call.options.commandPalette
  /\ FilterPresent("contextMenu") => c.contextMenu = call.options.contextMenu
  /\ FilterPresent("emptyPaneMenu") => c.emptyPaneMenu = call.options.emptyPaneMenu
  /\ FilterPresent("newTerminalMenu") => c.newTerminalMenu = call.options.newTerminalMenu
  /\ FilterPresent("categories") =>
       c.category \in {call.options.categories[i] : i \in 1..Len(call.options.categories)}
  /\ FilterPresent("commandsWithCategories") =>
       [category |-> c.category, command |-> c.command]
         \in { call.options.commandsWithCategories[i] :
                 i \in 1..Len(call.options.commandsWithCategories) }

WhenRequested == FilterPresent("when") /\ call.options.when

\* c passes every filter that is present in the options of the query.
PassesFilters(c) ==
  /\ PassesFiltersButWhen(c)
  /\ WhenRequested => WhenHolds(c)

\* The commands of the metadata entries that were not activated.
InactiveCommands ==
  UNION { { ExtensionMetadataList[m].commands[c].command :
              c \in 1..Len(ExtensionMetadataList[m].commands) } :
          m \in { k \in 1..Len(ExtensionMetadataList) :
                    \A e \in 1..Len(activeExtensions) :
                       activeExtensions[e].name # ExtensionMetadataList[k].name } }

\* C11: the commands a query returns are exactly the contributed commands
\* of the active extensions that pass every filter present in the options,
\* each once; an absent filter excludes nothing, and no command of an
\* extension that is not active is returned.
C11_QueryFilters ==
  IsQuery =>
    /\ { entries[i].command : i \in 1..Len(entries) }
         = { ContributionAt(p).command : p \in { q \in Contributed : PassesFilters(ContributionAt(q)) } }
    /\ Len(entries) = Cardinality({ q \in Contributed : PassesFilters(ContributionAt(q)) })
    /\ call.options = << >> => Len(entries) = Cardinality(Contributed)
    /\ \A i \in 1..Len(entries) : entries[i].command \notin InactiveCommands

\* A query with a category filter and one with a pair filter returned some
\* of the contributed commands and left others out.
C11_Witness ==
  /\ IsQuery /\ started
  /\ FilterPresent("categories") \/ FilterPresent("commandsWithCategories")
  /\ entries # <<>>
  /\ Len(entries) < Cardinality(Contributed)
  /\ \E p \in Contributed :
        /\ ContributionAt(p).category \notin {entries[i].category : i \in 1..Len(entries)}
        /\ ~PassesFilters(ContributionAt(p))

\* C12: with the when filter requested, a command whose when clause is
\* empty and that passes the other requested filters is in the result
\* whatever the focus state is, and the expression evaluator is given
\* exactly the non-empty when clauses of the commands that pass the other
\* filters, never an empty one.
C12_EmptyWhenAlwaysIncluded ==
  (IsQuery /\ WhenRequested) =>
    /\ \A p \in Contributed :
         (ContributionAt(p).when = <<>> /\ PassesFiltersButWhen(ContributionAt(p)))
           => \E i \in 1..Len(entries) : entries[i].command = ContributionAt(p).command
    /\ \A k \in 1..Len(evaluated) : evaluated[k] # <<>>
    /\ Len(evaluated) =
         Cardinality({ p \in Contributed : /\ ContributionAt(p).when # <<>>
                                           /\ PassesFiltersButWhen(ContributionAt(p)) })

\* A query with the when filter returned a command with an empty when
\* clause in a state with a focus terminal and left out a command whose
\* clause the evaluator found false.
C12_Witness ==
  /\ IsQuery /\ WhenRequested
  /\ QueryContext.focusTerminal # NULL
  /\ evaluated # <<>>
  /\ \E p \in Contributed :
        /\ ContributionAt(p).when = <<>>
        /\ \E i \in 1..Len(entries) : entries[i].command = ContributionAt(p).command
  /\ \E p \in Contributed :
        /\ ContributionAt(p).when # <<>>
        /\ PassesFiltersButWhen(ContributionAt(p))
        /\ \A i \in 1..Len(entries) : entries[i].command # ContributionAt(p).command

\* The query is about a state whose focus terminal is in normal mode.
NormalModeTerminal ==
  QueryContext.focusTerminal # NULL /\ getMode(QueryContext.focusTerminal) # "CURSOR"

InEntries(command) == \E i \in 1..Len(entries) : entries[i].command = command

\* C13: in a state with a focus terminal in normal mode the variables
\* textEditorFocus and isTextEditing are false even with a focus text
\* editor; in every other state textEditorFocus is true exactly when there
\* is a focus text editor, and isTextEditing exactly when textEditorFocus
\* holds and that editor is editable.  A command guarded by textEditorFocus
\* is returned accordingly.
C13_TextEditorSuppressed ==
  (IsQuery /\ WhenRequested) =>
    LET variables == _createWhenVariables(QueryContext)
        expected == QueryContext.focusTextEditor # NULL /\ ~NormalModeTerminal
    IN /\ NormalModeTerminal => (~variables.textEditorFocus /\ ~variables.isTextEditing)
       /\ ~NormalModeTerminal =>
            /\ variables.textEditorFocus <=> QueryContext.focusTextEditor # NULL
            /\ variables.isTextEditing <=>
                 (variables.textEditorFocus /\ getEditable(QueryContext.focusTextEditor))
       /\ \A p \in Contributed :
            ( /\ ContributionAt(p).when = <<"textEditorFocus">>
              /\ PassesFiltersButWhen(ContributionAt(p)) )
            => (InEntries(ContributionAt(p).command) <=> expected)

\* A query about a state with a normal-mode focus terminal and an editable
\* focus text editor left out the command guarded by textEditorFocus.
C13_Witness ==
  /\ IsQuery /\ WhenRequested /\ started
  /\ NormalModeTerminal
  /\ QueryContext.focusTextEditor # NULL /\ getEditable(QueryContext.focusTextEditor)
  /\ ~_createWhenVariables(QueryContext).textEditorFocus
  /\ ~_createWhenVariables(QueryContext).isTextEditing
  /\ PassesFiltersButWhen(ContributionAt(CHOOSE p \in Contributed :
                            ContributionAt(p).when = <<"textEditorFocus">>))
  /\ ~InEntries(<<"ext", ":", "edit">>)

(***************************************************************************)
(* Properties of startUp, checked under SpecStart.                         *)
(***************************************************************************)
\* The descriptor is one the render process activates successfully.
Activatable(m) ==
  /\ ~m.isMainProcess
  /\ m.isSupported
  /\ m.main # NULL => (m.loads /\ m.activates)

\* C14: after startUp the active extensions are, in discovery order,
\* exactly the descriptors that are not main-process-only, are supported on
\* the platform and, when they declare an entry module, loaded and
\* activated; a failing extension is absent and stops no later one.
C14_ActiveExtensions ==
  call.op = "startUp" =>
    LET expected == SelectSeq(call.metadata, Activatable)
    IN /\ Len(activeExtensions) = Len(expected)
       /\ \A i \in 1..Len(expected) :
            /\ activeExtensions[i].name = expected[i].name
            /\ activeExtensions[i].commands = expected[i].commands

\* A descriptor whose module does not load and one whose activation throws
\* came before a descriptor that was activated.
C14_Witness ==
  /\ call.op = "startUp"
  /\ Len(call.metadata) = 3
  /\ ~call.metadata[1].loads
  /\ ~call.metadata[2].activates
  /\ Activatable(call.metadata[3])
  /\ Len(activeExtensions) = 1
  /\ activeExtensions[1].name = call.metadata[3].name

(***************************************************************************)
(* Properties of runtime contributions, checked under SpecRegister.        *)
(***************************************************************************)
RECURSIVE Without(_, _)
\* The list without the occurrences of x, the rest in their order.
Without(list, x) ==
  IF list = <<>> THEN <<>>
  ELSE IF Head(list) = x THEN Without(Tail(list), x)
  ELSE <<Head(list)>> \o Without(Tail(list), x)

Occurs(list, x) == \E i \in 1..Len(list) : list[i] = x

\* C15: after registerCommandContribution(c) the contribution is in the
\* command list of the owning extension; after dispose() of the returned
\* handle it is in that list no longer, every other contribution of the
\* extension is still there in its order, and a query returns c exactly
\* when c is in the list and passes the filters.
C15_RegisteredUntilDisposed ==
  [][ /\ call'.op = "registerCommandContribution" =>
           Occurs(activeExtensions'[handles'[call'.handle].extension].commands,
                  handles'[call'.handle].contribution)
      /\ call'.op = "dispose" =>
           LET h == handles'[call'.handle]
           IN /\ ~Occurs(activeExtensions'[h.extension].commands, h.contribution)
              /\ activeExtensions'[h.extension].commands =
                   Without(activeExtensions[h.extension].commands, h.contribution)
              /\ \A e \in 1..Len(activeExtensions) :
                   e # h.extension => activeExtensions'[e] = activeExtensions[e]
    ]_vars

\* C20: dispose() on a handle that was disposed before leaves the command
\* lists as they are, and no dispose() removes a contribution other than
\* the one its handle was returned for.
C20_DisposeIdempotent ==
  [][ call'.op = "dispose" =>
        LET h == handles[call'.handle]
        IN /\ h.disposed => activeExtensions' = activeExtensions
           /\ \A e \in 1..Len(activeExtensions) :
                Without(activeExtensions'[e].commands, h.contribution)
                  = Without(activeExtensions[e].commands, h.contribution)
    ]_vars

(***************************************************************************)
(* Properties of the focus fields and of the classification of an event,   *)
(* checked under Spec and SpecFocus.                                       *)
(***************************************************************************)
\* C16: after every updateExtensionWindowStateFromEvent the canonical
\* focusTerminal, focusTextEditor and focusViewerElement are what the event
\* found, null when it found none, in the same tab and across tabs.
C16_FocusFieldsCurrent ==
  IsUpdate =>
    /\ state.focusTerminal = EventFound.focusTerminal
    /\ state.focusTextEditor = EventFound.focusTextEditor
    /\ state.focusViewerElement = EventFound.focusViewerElement

IsClassify == call.op = "getExtensionWindowStateFromEvent"

\* The positions of the terminals in the composed path of the event.
TerminalsInPath ==
  { i \in 1..Len(composedPath(call.target)) : IsEtTerminal(composedPath(call.target)[i]) }

\* The terminal of the path that is nearest to the event target.
NearestTerminal ==
  composedPath(call.target)[CHOOSE i \in TerminalsInPath : \A j \in TerminalsInPath : i <= j]

\* C17: when the composed path of the event has more than one terminal,
\* the active and the focus terminal of the snapshot are the first of them
\* in the path, the one nearest to the event target.
C17_NearestTerminalWins ==
  (IsClassify /\ Cardinality(TerminalsInPath) > 1) =>
    /\ outcome.value.activeTerminal = NearestTerminal
    /\ outcome.value.focusTerminal = NearestTerminal

\* The composed path of the event has a text viewer or a terminal viewer.
TextEditorInPath ==
  \E i \in 1..Len(composedPath(call.target)) :
     \/ IsTerminalViewer(composedPath(call.target)[i])
     \/ IsTextViewer(composedPath(call.target)[i])

\* C18: when the composed path has a terminal in normal mode and a text
\* editor, the snapshot has no active and no focus text editor; the text
\* editor fields are set only when the terminal found is absent or in
\* cursor mode.
C18_NormalModeSuppressesEditor ==
  IsClassify =>
    /\ ( /\ TextEditorInPath
         /\ outcome.value.activeTerminal # NULL
         /\ getMode(outcome.value.activeTerminal) # "CURSOR" )
       => ( /\ outcome.value.activeTextEditor = NULL
            /\ outcome.value.focusTextEditor = NULL )
    /\ outcome.value.focusTextEditor # NULL =>
         \/ outcome.value.activeTerminal = NULL
         \/ getMode(outcome.value.activeTerminal) = "CURSOR"

(***************************************************************************)
(* The frame of the reading operations, checked under SpecFrame.           *)
(***************************************************************************)
ReadingOperations ==
  { "queryCommands", "queryCommandsWithExtensionWindowState", "copyExtensionWindowState",
    "getExtensionWindowStateFromEvent", "getExtensionContextByName" }

\* C19: queryCommands, queryCommandsWithExtensionWindowState,
\* copyExtensionWindowState, getExtensionWindowStateFromEvent,
\* getExtensionContextByName and an executeCommand that invokes no handler
\* leave every field of the canonical state and every contribution list as
\* they were, and the canonical state never gets a field of the derived
\* when variables.
C19_ReadersLeaveStateAlone ==
  [][ /\ ( \/ call'.op \in ReadingOperations
           \/ call'.op = "executeCommand" /\ invoked' = <<>> )
         => ( /\ state' = state
              /\ \A e \in 1..Len(activeExtensions) :
                   activeExtensions'[e].commands = activeExtensions[e].commands
              /\ Len(activeExtensions') = Len(activeExtensions) )
      /\ DOMAIN state' = DOMAIN EmptyExtensionWindowState
    ]_vars

\* A query with the when filter about a given state other than the
\* canonical one returned entries, and the canonical state, which has a
\* focus terminal, is as it was.
C19_Witness ==
  /\ call.op = "queryCommandsWithExtensionWindowState"
  /\ WhenRequested /\ evaluated # <<>> /\ entries # <<>>
  /\ call.tempState # state
  /\ call.tempState.focusTerminal = NULL
  /\ state.focusTerminal # NULL
  /\ state = before

\* C21: in every canonical state that focus-event merges reach from the
\* initial all-null state, a focus field that is not null has an active
\* field that is not null: for the terminal, the text editor and the
\* viewer element.
C21_FocusImpliesActive ==
  /\ state.focusTerminal # NULL => state.activeTerminal # NULL
  /\ state.focusTextEditor # NULL => state.activeTextEditor # NULL
  /\ state.focusViewerElement # NULL => state.activeViewerElement # NULL

\* After an event in the tab that was active, which found no terminal, the
\* focus fields set by an earlier event are still set, the active terminal
\* was retained, and the active text editor is another one than the focus
\* text editor.
C21_Witness ==
  /\ IsUpdate /\ SameTab
  /\ EventFound.focusTerminal = NULL
  /\ state.focusTerminal # NULL /\ state.activeTerminal # NULL
  /\ state.focusTextEditor # NULL /\ state.activeTextEditor # NULL
  /\ state.focusViewerElement # NULL /\ state.activeViewerElement # NULL
  /\ state.activeTextEditor # state.focusTextEditor

=============================================================================
